---- MODULE Spec2Model ----
(***************************************************************************)
(* Model of the vault-pda program (programs/vault-pda): the protocol       *)
(* bootstrap, vault creation, deposit, redeem and ownership transfer       *)
(* instructions, together with the SPL token ledger they call into.        *)
(*                                                                         *)
(* A Solana transaction is atomic: an instruction that returns an error    *)
(* (from a require!, a checked operation or a CPI) leaves every account    *)
(* as it was.  Each instruction is therefore one action that first         *)
(* computes the error the handler would return and applies the handler's   *)
(* writes only when that error is "Ok"; a failed instruction is a step     *)
(* that changes nothing.                                                   *)
(***************************************************************************)
EXTENDS Integers, FiniteSets, Sequences, TLC

(***************************************************************************)
(* Bounds of the model.                                                    *)
(***************************************************************************)
\* underlying tokens every party holds when the program is deployed
InitialBalance == 2
\* largest amount / shares argument passed to an instruction
MaxAmount == 2
\* cap on the supply a mint authority outside the program mints
MaxMinted == 1
\* largest value of the ledger's unsigned integers (2^64 - 1 in the program),
\* scaled down
U64Max == 7
\* the harness caps the yield it mints below this value (10^9 in the
\* harness), scaled down
YieldCap == 3

(***************************************************************************)
(* Program constants.                                                      *)
(***************************************************************************)
\* fixed-point multiplier of the harness's value-per-share comparison
PRECISION == 1000000000

\* keys (Pubkeys)
Parties == {"alice", "mallory"}
NoKey == "none"
VaultAuthorityKey == "vault_authority"
IssuerKey == "issuer"
\* the keypair setup_protocol creates to sign initialize as owner and payer
DeployerKey == "deployer"

\* mints: the underlying asset, the vault's share mint (a PDA), and a mint
\* created outside the program by one of the parties
UnderlyingMint == "underlying_mint"
ShareMintPda == "share_mint"
ForeignMint == "foreign_mint"
Mints == {UnderlyingMint, ShareMintPda, ForeignMint}
ForeignMintAuthority == "mallory"

\* token accounts: one per party and mint, plus the vault's custody account
VaultTokenAccountPda == "vault_token_account"
Holders == Parties \cup {VaultTokenAccountPda}

NoAccount == [exists |-> FALSE]
NoFuzz == [stage |-> "off"]

VARIABLES
    protocol_state,    \* ProtocolState account: NoAccount or [exists, owner]
    vault_authority,   \* VaultAuthority account: NoAccount or [exists]
    vault,             \* Vault account for UnderlyingMint: NoAccount or record
    mint_authority,    \* mint -> key allowed to mint it
    supply,            \* mint -> Mint.supply
    bal,               \* mint -> holder -> TokenAccount.amount
    last,              \* the last instruction that succeeded: its arguments,
                       \* its result and the balances read just before it
    everHeld,          \* parties that ever held units of the vault's share mint
    netPaid,           \* party -> underlying deposited plus donated, minus
                       \* underlying received from redeems, so far
    donors,            \* parties that ever donated into custody
    hasDeposited,      \* a deposit into the vault has succeeded
    fuzz               \* the fuzz harness's iteration: its input and the step
                       \* it has reached; NoFuzz when no harness is running

vars == <<protocol_state, vault_authority, vault, mint_authority, supply, bal,
          last, everHeld, netPaid, donors, hasDeposited, fuzz>>

accounts == <<protocol_state, vault_authority, vault, mint_authority>>
ledger == <<supply, bal>>
history == <<everHeld, netPaid, donors, hasDeposited>>

(***************************************************************************)
(* Integer helpers.                                                        *)
(***************************************************************************)
\* 2^64 in the program: the number of values of a u64
U64Modulus == U64Max + 1

\* `x as u64`: narrowing keeps the low bits
AsU64(x) == x % U64Modulus

\* a product computed in u64 instead of u128
U128MaxNarrow == U64Max

\* u128 arithmetic: checked_mul fails when the product leaves 128 bits
U128Max == U64Modulus * U64Modulus - 1

RECURSIVE SumOver(_, _)
SumOver(f, S) ==
    IF S = {} THEN 0
    ELSE LET x == CHOOSE y \in S : TRUE IN f[x] + SumOver(f, S \ {x})

\* get_token_balance / get_mint_supply as the harness reads them
VaultBalance == bal[UnderlyingMint][VaultTokenAccountPda]
ShareSupply == supply[ShareMintPda]
TotalUnderlying == SumOver(bal[UnderlyingMint], Holders)

\* the balances the harness reads before it submits an instruction of user p
Snapshot(p) ==
    [vault_balance |-> VaultBalance,
     share_supply |-> ShareSupply,
     user_balance |-> bal[UnderlyingMint][p],
     user_shares |-> bal[ShareMintPda][p],
     underlying_total |-> TotalUnderlying]

NoSnapshot ==
    [vault_balance |-> 0, share_supply |-> 0, user_balance |-> 0,
     user_shares |-> 0, underlying_total |-> 0]

\* acct: the mint passed as share_mint (deposit, redeem), the mint minted
\* (mint_tokens), the account passed as current_owner (transfer_ownership)
Op(op, caller, acct, amount, out, before) ==
    [op |-> op, caller |-> caller, acct |-> acct, amount |-> amount,
     out |-> out, before |-> before]

Init ==
    /\ protocol_state = NoAccount
    /\ vault_authority = NoAccount
    /\ vault = NoAccount
    /\ mint_authority = [m \in Mints |->
                            IF m = UnderlyingMint THEN IssuerKey
                            ELSE IF m = ForeignMint THEN ForeignMintAuthority
                            ELSE NoKey]
    /\ supply = [m \in Mints |->
                    IF m = UnderlyingMint
                    THEN InitialBalance * Cardinality(Parties) ELSE 0]
    /\ bal = [m \in Mints |-> [h \in Holders |->
                    IF m = UnderlyingMint /\ h \in Parties
                    THEN InitialBalance ELSE 0]]
    /\ last = Op("deploy", NoKey, NoKey, 0, 0, NoSnapshot)
    /\ everHeld = {}
    /\ netPaid = [p \in Parties |-> 0]
    /\ donors = {}
    /\ hasDeposited = FALSE
    /\ fuzz = NoFuzz

(***************************************************************************)
(* The SPL token ledger (token_interface CPIs).  Each instruction fails    *)
(* atomically; the operators below give its error and its effect.          *)
(***************************************************************************)
\* transfer_checked: the source must hold the amount
TransferError(b, m, from, to, n) ==
    IF b[m][from] < n THEN "InsufficientFunds"
    ELSE IF from # to /\ b[m][to] + n > U64Max THEN "Overflow"
    ELSE "Ok"

TransferApply(b, m, from, to, n) ==
    [b EXCEPT ![m][from] = @ - n, ![m][to] = @ + n]

\* mint_to: supply and destination grow by the amount, checked
MintToError(s, b, m, to, n) ==
    IF s[m] + n > U64Max \/ b[m][to] + n > U64Max THEN "Overflow" ELSE "Ok"

MintToSupply(s, m, n) == [s EXCEPT ![m] = @ + n]
\* a MintTo whose `to` is the vault's account instead of the depositor's
MintToApplyVault(b, m, to, n) == [b EXCEPT ![m][VaultTokenAccountPda] = @ + n]

MintToApply(b, m, to, n) == [b EXCEPT ![m][to] = @ + n]

\* burn: the source must hold the amount; supply shrinks by it
BurnError(b, m, from, n) ==
    IF b[m][from] < n THEN "InsufficientFunds" ELSE "Ok"

BurnSupply(s, m, n) == [s EXCEPT ![m] = @ - n]
BurnApply(b, m, from, n) == [b EXCEPT ![m][from] = @ - n]

(***************************************************************************)
(* The entry points return the handler's Result to the runtime, which      *)
(* keeps the writes of an instruction that returned Ok and discards the    *)
(* writes of one that returned an error.                                   *)
(***************************************************************************)
\* an entry point that drops the handler's error and returns Ok
CommittedAlways(err) == TRUE

\* the instruction's writes are kept
Committed(err) == err = "Ok"

(***************************************************************************)
(* initialize                                                              *)
(***************************************************************************)
\* init_if_needed: an existing ProtocolState is initialized again
InitializeErrorIfNeeded == "Ok"

\* `init` on protocol_state and vault_authority fails when the PDA exists
InitializeError ==
    IF protocol_state.exists \/ vault_authority.exists
    THEN "AccountAlreadyInUse" ELSE "Ok"

Initialize(owner, payer) ==
    LET err == InitializeError IN
    IF err = "Ok"
    THEN /\ protocol_state' = [exists |-> TRUE, owner |-> owner]
         /\ vault_authority' = [exists |-> TRUE]
         /\ last' = Op("initialize", payer, NoKey, 0, 0, NoSnapshot)
         /\ UNCHANGED <<vault, mint_authority, ledger, history>>
    ELSE UNCHANGED vars

(***************************************************************************)
(* initialize_vault                                                        *)
(***************************************************************************)
\* a share mint authority that is the payer instead of the program's PDA
ShareMintAuthorityPayer(payer) == payer

\* mint::authority = vault_authority for the share mint created by
\* initialize_vault
ShareMintAuthority(payer) == VaultAuthorityKey

\* an InitializeVault whose vault_authority is not required to exist
InitializeVaultErrorNoAuthority ==
    IF vault.exists THEN "AccountAlreadyInUse" ELSE "Ok"

\* init_if_needed: an existing vault is initialized again
InitializeVaultErrorIfNeeded ==
    IF ~vault_authority.exists THEN "AccountNotInitialized" ELSE "Ok"

\* vault_authority must have been created by initialize; `init` on the
\* vault, its token account and its share mint fails when they exist
InitializeVaultError ==
    IF ~vault_authority.exists THEN "AccountNotInitialized"
    ELSE IF vault.exists THEN "AccountAlreadyInUse"
    ELSE "Ok"

InitializeVault(payer) ==
    LET err == InitializeVaultError IN
    IF err = "Ok"
    THEN /\ vault' = [exists |-> TRUE,
                      share_mint |-> ShareMintPda,
                      underlying_mint |-> UnderlyingMint,
                      vault_token_account |-> VaultTokenAccountPda]
         /\ mint_authority' =
               [mint_authority EXCEPT ![ShareMintPda] = ShareMintAuthority(payer)]
         /\ last' = Op("initialize_vault", payer, NoKey, 0, 0, NoSnapshot)
         /\ UNCHANGED <<protocol_state, vault_authority, ledger, history>>
    ELSE UNCHANGED vars

(***************************************************************************)
(* transfer_ownership                                                      *)
(***************************************************************************)
\* current_owner is an UncheckedAccount: only its key is compared, the
\* transaction's signer (caller) is not looked at
TransferOwnershipError(caller, current_owner) ==
    IF ~protocol_state.exists THEN "AccountNotInitialized"
    ELSE IF current_owner # protocol_state.owner THEN "Unauthorized"
    ELSE "Ok"

\* a transfer of ownership that also hands the custody balance to the new
\* owner
TransferOwnershipSweeping(caller, current_owner, new_owner) ==
    IF TransferOwnershipError(caller, current_owner) = "Ok"
    THEN /\ protocol_state' = [protocol_state EXCEPT !.owner = new_owner]
         /\ bal' = [bal EXCEPT ![UnderlyingMint][new_owner] = @ + VaultBalance,
                                ![UnderlyingMint][VaultTokenAccountPda] = 0]
         /\ last' = Op("transfer_ownership", caller, current_owner, 0, 0,
                       NoSnapshot)
         /\ UNCHANGED <<vault_authority, vault, mint_authority, supply, history>>
    ELSE UNCHANGED vars

TransferOwnership(caller, current_owner, new_owner) ==
    LET err == TransferOwnershipError(caller, current_owner) IN
    IF err = "Ok"
    THEN /\ protocol_state' = [protocol_state EXCEPT !.owner = new_owner]
         /\ last' = Op("transfer_ownership", caller, current_owner, 0, 0,
                       NoSnapshot)
         /\ UNCHANGED <<vault_authority, vault, mint_authority, ledger, history>>
    ELSE UNCHANGED vars

(***************************************************************************)
(* deposit                                                                 *)
(***************************************************************************)
\* a first deposit that counts the balance already in custody
BootstrapSharesResidual(amount, total_assets) == amount + total_assets

\* first deposit: shares 1:1 with the deposited amount
BootstrapShares(amount, total_assets) == amount

\* the redeem formula used for a deposit: the price inverted
ProportionalSharesInverted(amount, total_shares, total_assets) ==
    (amount * total_assets) \div total_shares

\* a division that rounds up instead of truncating
ProportionalSharesCeil(amount, total_shares, total_assets) ==
    (amount * total_shares + total_assets - 1) \div total_assets

\* a quotient over the custody balance as it is after the deposit's transfer
ProportionalSharesAfterTransfer(amount, total_shares, total_assets) ==
    (amount * total_shares) \div (total_assets + amount)

\* (amount * total_shares) / total_assets in u128, truncating division
ProportionalShares(amount, total_shares, total_assets) ==
    (amount * total_shares) \div total_assets

\* the block computing shares_to_mint, narrowed with `as u64`
SharesToMint(amount, total_shares, total_assets) ==
    IF total_shares = 0
    THEN BootstrapShares(amount, total_assets)
    ELSE AsU64(ProportionalShares(amount, total_shares, total_assets))

\* a require! that lets a deposit computing no shares through
InsufficientSharesNever(shares_to_mint) == shares_to_mint < 0

\* require!(shares_to_mint > 0, InsufficientShares) fails
InsufficientShares(shares_to_mint) == ~(shares_to_mint > 0)

\* a handler that accepts any mint as share_mint
InvalidShareMintNever(m) == FALSE

\* require!(share_mint.key() == vault.share_mint, InvalidShareMint) fails
InvalidShareMint(m) == ~(m = vault.share_mint)

\* account validation and the handler's require!s and checked operations, in
\* source order, for depositor p passing mint m as share_mint
DepositChecks(p, m, amount) ==
    LET total_shares == supply[m]
        total_assets == bal[UnderlyingMint][VaultTokenAccountPda]
    IN
    IF ~vault.exists \/ ~vault_authority.exists THEN "AccountNotInitialized"
    ELSE IF ~(amount > 0) THEN "InvalidAmount"
    ELSE IF InvalidShareMint(m) THEN "InvalidShareMint"
    ELSE IF total_shares # 0 /\ ~(total_assets > 0) THEN "InvalidVaultState"
    ELSE IF total_shares # 0 /\ amount * total_shares > U128Max THEN "MathOverflow"
    ELSE IF InsufficientShares(SharesToMint(amount, total_shares, total_assets))
         THEN "InsufficientShares"
    ELSE "Ok"

\* a handler that makes the transfer before it computes the shares
DepositErrorTransferFirst(p, m, amount) ==
    LET checks == DepositChecks(p, m, amount)
        transfer == TransferError(bal, UnderlyingMint, p, VaultTokenAccountPda,
                                  amount)
    IN
    IF checks \in {"AccountNotInitialized", "InvalidAmount", "InvalidShareMint"}
    THEN checks
    ELSE IF transfer # "Ok" THEN transfer
    ELSE IF checks # "Ok" THEN checks
    ELSE MintToError(supply,
                     TransferApply(bal, UnderlyingMint, p, VaultTokenAccountPda,
                                   amount),
                     m, p, SharesToMint(amount, supply[m], VaultBalance))

\* the error deposit returns: the checks first, then the two CPIs, each
\* propagated with `?`
DepositError(p, m, amount) ==
    LET total_shares == supply[m]
        total_assets == bal[UnderlyingMint][VaultTokenAccountPda]
        checks == DepositChecks(p, m, amount)
        transfer == TransferError(bal, UnderlyingMint, p, VaultTokenAccountPda,
                                  amount)
    IN
    IF checks # "Ok" THEN checks
    ELSE IF transfer # "Ok" THEN transfer
    ELSE MintToError(supply,
                     TransferApply(bal, UnderlyingMint, p, VaultTokenAccountPda,
                                   amount),
                     m, p, SharesToMint(amount, total_shares, total_assets))

\* <<supply, bal>> as the handler's CPIs have written them when it returns:
\* nothing when a check or the transfer fails, the transfer alone when
\* mint_to fails, both otherwise
DepositWrites(p, m, amount) ==
    LET total_shares == supply[m]
        total_assets == bal[UnderlyingMint][VaultTokenAccountPda]
        afterTransfer == TransferApply(bal, UnderlyingMint, p,
                                       VaultTokenAccountPda, amount)
    IN
    IF \/ DepositChecks(p, m, amount) # "Ok"
       \/ TransferError(bal, UnderlyingMint, p, VaultTokenAccountPda, amount) # "Ok"
    THEN <<supply, bal>>
    ELSE LET shares_to_mint == SharesToMint(amount, total_shares, total_assets) IN
         IF MintToError(supply, afterTransfer, m, p, shares_to_mint) # "Ok"
         THEN <<supply, afterTransfer>>
         ELSE <<MintToSupply(supply, m, shares_to_mint),
                MintToApply(afterTransfer, m, p, shares_to_mint)>>

\* <<supply, bal>> after the deposit instruction
DepositResult(p, m, amount) ==
    IF Committed(DepositError(p, m, amount))
    THEN DepositWrites(p, m, amount)
    ELSE <<supply, bal>>

Deposit(p, m, amount) ==
    LET err == DepositError(p, m, amount)
        written == DepositWrites(p, m, amount)
    IN
    IF Committed(err)
    THEN /\ supply' = written[1]
         /\ bal' = written[2]
         /\ UNCHANGED accounts
         /\ IF err = "Ok"
            THEN /\ last' = Op("deposit", p, m, amount,
                               SharesToMint(amount, supply[m], VaultBalance),
                               Snapshot(p))
                 /\ everHeld' = everHeld \cup {p}
                 /\ netPaid' = [netPaid EXCEPT ![p] = @ + amount]
                 /\ hasDeposited' = TRUE
                 /\ UNCHANGED donors
            ELSE UNCHANGED <<last, history>>
    ELSE UNCHANGED vars

(***************************************************************************)
(* redeem                                                                  *)
(***************************************************************************)
\* a redeem that pays 1 underlying per share, whatever custody holds
UnderlyingToReturnAtPar(shares, total_assets, total_shares) == shares

\* the deposit formula used for a redeem: the price inverted
UnderlyingToReturnInverted(shares, total_assets, total_shares) ==
    (shares * total_shares) \div total_assets

\* (shares * total_assets) / total_shares in u128, truncating division
UnderlyingToReturn(shares, total_assets, total_shares) ==
    (shares * total_assets) \div total_shares

\* a require! that lets a redeem returning nothing through
InsufficientUnderlyingNever(underlying_to_return) == underlying_to_return < 0

\* require!(underlying_to_return > 0, InsufficientUnderlying) fails
InsufficientUnderlying(underlying_to_return) == ~(underlying_to_return > 0)

\* account validation and the handler's require!s and checked operations, in
\* source order, for redeemer p passing mint m as share_mint.  The Redeem
\* accounts constrain vault, underlying_mint and vault_token_account;
\* share_mint is any mint, and redeemer_share_account is the redeemer's
\* account of that mint.
RedeemChecks(p, m, shares) ==
    LET total_shares == supply[m]
        total_assets == bal[UnderlyingMint][VaultTokenAccountPda]
    IN
    IF ~vault.exists \/ ~vault_authority.exists THEN "AccountNotInitialized"
    ELSE IF ~(shares > 0) THEN "InvalidAmount"
    ELSE IF ~(total_shares > 0) THEN "NoShares"
    ELSE IF ~(total_assets > 0) THEN "EmptyVault"
    ELSE IF shares * total_assets > U128Max THEN "MathOverflow"
    ELSE IF InsufficientUnderlying(
                AsU64(UnderlyingToReturn(shares, total_assets, total_shares)))
         THEN "InsufficientUnderlying"
    ELSE "Ok"

\* the error redeem returns: the checks first, then the two CPIs, each
\* propagated with `?`
RedeemError(p, m, shares) ==
    LET total_shares == supply[m]
        total_assets == bal[UnderlyingMint][VaultTokenAccountPda]
        checks == RedeemChecks(p, m, shares)
        burn == BurnError(bal, m, p, shares)
    IN
    IF checks # "Ok" THEN checks
    ELSE IF burn # "Ok" THEN burn
    ELSE TransferError(BurnApply(bal, m, p, shares), UnderlyingMint,
                       VaultTokenAccountPda, p,
                       AsU64(UnderlyingToReturn(shares, total_assets,
                                                total_shares)))

\* <<supply, bal>> as the handler's CPIs have written them when it returns:
\* nothing when a check or the burn fails, the burn alone when the transfer
\* fails, both otherwise
RedeemWrites(p, m, shares) ==
    LET total_shares == supply[m]
        total_assets == bal[UnderlyingMint][VaultTokenAccountPda]
        afterBurn == BurnApply(bal, m, p, shares)
    IN
    IF RedeemChecks(p, m, shares) # "Ok" \/ BurnError(bal, m, p, shares) # "Ok"
    THEN <<supply, bal>>
    ELSE LET underlying_to_return ==
                 AsU64(UnderlyingToReturn(shares, total_assets, total_shares))
         IN
         IF TransferError(afterBurn, UnderlyingMint, VaultTokenAccountPda, p,
                          underlying_to_return) # "Ok"
         THEN <<BurnSupply(supply, m, shares), afterBurn>>
         ELSE <<BurnSupply(supply, m, shares),
                TransferApply(afterBurn, UnderlyingMint, VaultTokenAccountPda,
                              p, underlying_to_return)>>

\* <<supply, bal>> after the redeem instruction
RedeemResult(p, m, shares) ==
    IF Committed(RedeemError(p, m, shares))
    THEN RedeemWrites(p, m, shares)
    ELSE <<supply, bal>>

Redeem(p, m, shares) ==
    LET err == RedeemError(p, m, shares)
        written == RedeemWrites(p, m, shares)
        underlying_to_return ==
            AsU64(UnderlyingToReturn(shares, VaultBalance, supply[m]))
    IN
    IF Committed(err)
    THEN /\ supply' = written[1]
         /\ bal' = written[2]
         /\ UNCHANGED accounts
         /\ IF err = "Ok"
            THEN /\ last' = Op("redeem", p, m, shares, underlying_to_return,
                               Snapshot(p))
                 /\ netPaid' = [netPaid EXCEPT ![p] = @ - underlying_to_return]
                 /\ UNCHANGED <<everHeld, donors, hasDeposited>>
            ELSE UNCHANGED <<last, history>>
    ELSE UNCHANGED vars

(***************************************************************************)
(* The environment: minting by a mint's authority and yield injection.     *)
(***************************************************************************)
\* mint_tokens_to_user: the mint authority p mints n units of m to itself
MintTokens(p, m, n) ==
    /\ mint_authority[m] = p
    /\ supply[m] + n <= MaxMinted
    /\ MintToError(supply, bal, m, p, n) = "Ok"
    /\ supply' = MintToSupply(supply, m, n)
    /\ bal' = MintToApply(bal, m, p, n)
    /\ last' = Op("mint_tokens", p, m, n, 0, NoSnapshot)
    /\ everHeld' = IF m = ShareMintPda THEN everHeld \cup {p} ELSE everHeld
    /\ UNCHANGED <<accounts, netPaid, donors, hasDeposited>>

\* yield injection: party p adds n underlying units to the vault's token
\* account directly, bypassing deposit.  The harness mints the units; here
\* the donor pays them from its own account, so that a donation has a payer
\* and the underlying supply stays closed.
DonateError(p, n) ==
    TransferError(bal, UnderlyingMint, p, VaultTokenAccountPda, n)

Donate(p, n) ==
    /\ vault.exists
    /\ DonateError(p, n) = "Ok"
    /\ bal' = TransferApply(bal, UnderlyingMint, p, VaultTokenAccountPda, n)
    /\ last' = Op("donate", p, UnderlyingMint, n, 0, NoSnapshot)
    /\ netPaid' = [netPaid EXCEPT ![p] = @ + n]
    /\ donors' = donors \cup {p}
    /\ UNCHANGED <<accounts, supply, everHeld, hasDeposited>>

\* The instructions and the environment that move tokens.  The protocol is
\* initialized as setup_protocol does it, owner and payer being the deployer.
\* transfer_ownership writes only ProtocolState.owner, which no other
\* instruction reads; it is explored, with every party as initial owner,
\* under SpecOwnership.  A deposit or redeem whose writes the runtime
\* discards leaves every variable as it was: it is a stuttering step, which
\* [Next]_vars allows, and Next lists the calls whose writes are kept.
Next ==
    \/ Initialize(DeployerKey, DeployerKey) /\ UNCHANGED fuzz
    \/ \E payer \in Parties : InitializeVault(payer) /\ UNCHANGED fuzz
    \/ \E p \in Parties, m \in Mints, amount \in 0..MaxAmount :
          /\ Committed(DepositError(p, m, amount))
          /\ Deposit(p, m, amount)
          /\ UNCHANGED fuzz
    \/ \E p \in Parties, m \in Mints, shares \in 0..MaxAmount :
          /\ Committed(RedeemError(p, m, shares))
          /\ Redeem(p, m, shares)
          /\ UNCHANGED fuzz
    \/ \E p \in Parties, m \in Mints, n \in 1..MaxAmount :
          MintTokens(p, m, n) /\ UNCHANGED fuzz
    \/ \E p \in Parties, n \in 1..MaxAmount : Donate(p, n) /\ UNCHANGED fuzz

Spec == Init /\ [][Next]_vars

NextOwnership ==
    \/ \E owner \in Parties, payer \in Parties :
          Initialize(owner, payer) /\ UNCHANGED fuzz
    \/ \E payer \in Parties : InitializeVault(payer) /\ UNCHANGED fuzz
    \/ \E caller \in Parties, current_owner \in Parties, new_owner \in Parties :
          TransferOwnership(caller, current_owner, new_owner) /\ UNCHANGED fuzz
    \/ \E p \in Parties, m \in Mints, n \in 1..MaxAmount :
          MintTokens(p, m, n) /\ UNCHANGED fuzz
    \/ \E p \in Parties, n \in 1..MaxAmount : Donate(p, n) /\ UNCHANGED fuzz

SpecOwnership == Init /\ [][NextOwnership]_vars

\* The five instructions of the program together, called by any party with
\* any arguments, without the environment's mints and donations.
NextProgram ==
    \/ \E owner \in Parties, payer \in Parties :
          Initialize(owner, payer) /\ UNCHANGED fuzz
    \/ \E payer \in Parties : InitializeVault(payer) /\ UNCHANGED fuzz
    \/ \E p \in Parties, m \in Mints, amount \in 0..MaxAmount :
          Deposit(p, m, amount) /\ UNCHANGED fuzz
    \/ \E p \in Parties, m \in Mints, shares \in 0..MaxAmount :
          Redeem(p, m, shares) /\ UNCHANGED fuzz
    \/ \E caller \in Parties, current_owner \in Parties, new_owner \in Parties :
          TransferOwnership(caller, current_owner, new_owner) /\ UNCHANGED fuzz

SpecProgram == Init /\ [][NextProgram]_vars

(***************************************************************************)
(* The deposit fuzz harness (fuzz_deposit_once): one iteration builds a    *)
(* fresh environment from its input, optionally makes a seed deposit and   *)
(* mints yield into the vault's token account, then submits the deposit    *)
(* under test.  Token decimals do not enter the ledger arithmetic and are  *)
(* left out of the input.                                                  *)
(***************************************************************************)
\* the user whose accounts setup_user_accounts creates
FuzzUser == "alice"

\* u64::saturating_add
SaturatingAdd(a, b) == IF a + b > U64Max THEN U64Max ELSE a + b

\* DepositFuzzInput: every field is an arbitrary value of its type
FuzzInputs ==
    [amount : 0..U64Max,
     initial_balance : 0..U64Max,
     yield_amount : 0..U64Max,
     do_initial_deposit : BOOLEAN,
     initial_deposit_amount : 0..U64Max]

\* the constrained inputs
FuzzAmount(input) == IF input.amount = 0 THEN 1 ELSE input.amount

FuzzTotalNeeded(input) ==
    IF input.do_initial_deposit
    THEN SaturatingAdd(FuzzAmount(input),
                       IF input.initial_deposit_amount = 0 THEN 1
                       ELSE input.initial_deposit_amount)
    ELSE FuzzAmount(input)

FuzzInitialBalance(input) ==
    SaturatingAdd(input.initial_balance, FuzzTotalNeeded(input))

FuzzYieldAmount(input) == input.yield_amount % YieldCap

\* the amount of the seed deposit: at most half of the user's balance
FuzzInitialDeposit(input) ==
    IF input.initial_deposit_amount = 0 THEN 1
    ELSE LET half == FuzzInitialBalance(input) \div 2 IN
         IF input.initial_deposit_amount < half
         THEN input.initial_deposit_amount ELSE half

\* a harness that passes the underlying mint as share_mint
FuzzShareMintUnderlying(v) == v.underlying_mint

\* the share_mint account the harness passes to deposit
FuzzShareMint(v) == v.share_mint

\* the step that follows the funding of the user, and the seed deposit
FuzzStageAfterSeed(input) ==
    IF FuzzYieldAmount(input) > 0 THEN "yield" ELSE "deposit"

FuzzStageAfterSetup(input) ==
    IF input.do_initial_deposit THEN "initial_deposit"
    ELSE FuzzStageAfterSeed(input)

\* the environment before setup_protocol: no account of the program exists
\* and nothing has been minted
FuzzInit ==
    /\ protocol_state = NoAccount
    /\ vault_authority = NoAccount
    /\ vault = NoAccount
    /\ mint_authority = [m \in Mints |->
                            IF m = UnderlyingMint THEN IssuerKey
                            ELSE IF m = ForeignMint THEN ForeignMintAuthority
                            ELSE NoKey]
    /\ supply = [m \in Mints |-> 0]
    /\ bal = [m \in Mints |-> [h \in Holders |-> 0]]
    /\ last = Op("deploy", NoKey, NoKey, 0, 0, NoSnapshot)
    /\ everHeld = {}
    /\ netPaid = [p \in Parties |-> 0]
    /\ donors = {}
    /\ hasDeposited = FALSE
    /\ \E input \in FuzzInputs : fuzz = [stage |-> "setup_protocol", input |-> input]

\* mint_tokens_to_user: the underlying mint's authority mints n units to the
\* token account `destination`
MintTokensToUser(destination, n) ==
    /\ MintToError(supply, bal, UnderlyingMint, destination, n) = "Ok"
    /\ supply' = MintToSupply(supply, UnderlyingMint, n)
    /\ bal' = MintToApply(bal, UnderlyingMint, destination, n)
    /\ last' = Op("mint_tokens", IssuerKey, UnderlyingMint, n, 0, NoSnapshot)
    /\ UNCHANGED <<accounts, history>>

\* setup_protocol: initialize, owner and payer being a fresh keypair
FuzzSetupProtocol ==
    /\ fuzz.stage = "setup_protocol"
    /\ Initialize(DeployerKey, DeployerKey)
    /\ fuzz' = [fuzz EXCEPT !.stage = "setup_vault"]

\* setup_vault: initialize_vault paid by the owner keypair
FuzzSetupVault ==
    /\ fuzz.stage = "setup_vault"
    /\ InitializeVault(DeployerKey)
    /\ fuzz' = [fuzz EXCEPT !.stage = "setup_user"]

\* the user's initial balance is minted; a failure skips the iteration
FuzzSetupUser ==
    /\ fuzz.stage = "setup_user"
    /\ FuzzInitialBalance(fuzz.input) > 0
    /\ MintTokensToUser(FuzzUser, FuzzInitialBalance(fuzz.input))
    /\ fuzz' = [fuzz EXCEPT !.stage = FuzzStageAfterSetup(fuzz.input)]

\* scenario 1, the seed deposit; when it fails the iteration ends
FuzzSeedDeposit ==
    /\ fuzz.stage = "initial_deposit"
    /\ Deposit(FuzzUser, FuzzShareMint(vault), FuzzInitialDeposit(fuzz.input))
    /\ fuzz' = [fuzz EXCEPT !.stage = FuzzStageAfterSeed(fuzz.input)]

\* scenario 2, yield minted into the vault's token account; when the mint
\* fails the iteration continues without it
FuzzYield ==
    /\ fuzz.stage = "yield"
    /\ IF MintToError(supply, bal, UnderlyingMint, VaultTokenAccountPda,
                      FuzzYieldAmount(fuzz.input)) = "Ok"
       THEN MintTokensToUser(VaultTokenAccountPda, FuzzYieldAmount(fuzz.input))
       ELSE UNCHANGED <<accounts, ledger, last, history>>
    /\ fuzz' = [fuzz EXCEPT !.stage = "deposit"]

\* the deposit under test; when it succeeds the harness goes on to its
\* assertions, when it fails to its allow-list
FuzzDeposit ==
    /\ fuzz.stage = "deposit"
    /\ Deposit(FuzzUser, FuzzShareMint(vault), FuzzAmount(fuzz.input))
    /\ fuzz' = [fuzz EXCEPT !.stage = "assert"]

FuzzNext ==
    \/ FuzzSetupProtocol
    \/ FuzzSetupVault
    \/ FuzzSetupUser
    \/ FuzzSeedDeposit
    \/ FuzzYield
    \/ FuzzDeposit

SpecHarness == FuzzInit /\ [][FuzzNext]_vars

\* the error kinds the harness accepts from the deposit under test
AcceptableErrors ==
    {"InsufficientFunds", "InvalidAmount", "InsufficientShares", "MathOverflow"}

(***************************************************************************)
(* The harness's before/after view of the last instruction.  `last.before` *)
(* holds what the harness reads before submitting, the state variables     *)
(* what it reads after.                                                    *)
(***************************************************************************)
LastDeposit == last.op = "deposit"
LastRedeem == last.op = "redeem"

\* floor(balance * PRECISION / supply) as <<integer part, fraction>>, the
\* fraction computed by long division in limbs of 1000
RECURSIVE FractionDigits(_, _, _)
FractionDigits(r, s, scale) ==
    IF scale = 1 THEN 0
    ELSE LET t == r * 1000 IN
         (t \div s) * (scale \div 1000)
            + FractionDigits(t % s, s, scale \div 1000)

ValuePerShare(balance, shares) ==
    <<balance \div shares, FractionDigits(balance % shares, shares, PRECISION)>>

ValueGeq(a, b) == a[1] > b[1] \/ (a[1] = b[1] /\ a[2] >= b[2])

(***************************************************************************)
(* C1.  Redeem pays floor(shares * total_assets / total_shares), with      *)
(* total_assets the custody balance and total_shares the supply of the     *)
(* share mint recorded in the vault, whichever share mint the caller       *)
(* passes.                                                                 *)
(***************************************************************************)
C1_RedeemUsesVaultShareMint ==
    LastRedeem =>
        /\ last.before.share_supply > 0
        /\ last.out = (last.amount * last.before.vault_balance)
                          \div last.before.share_supply

(***************************************************************************)
(* C2.  Underlying leaves custody only against a burn of the vault's own   *)
(* share mint: whoever a redeem paid has held the vault's shares, and the  *)
(* redeem lowered the supply of vault.share_mint by exactly `shares`.      *)
(***************************************************************************)
C2_CustodyLeavesOnlyAgainstBurn ==
    LastRedeem =>
        /\ last.caller \in everHeld
        /\ ShareSupply = last.before.share_supply - last.amount

(***************************************************************************)
(* C3.  ProtocolState.owner changes only through a transfer_ownership      *)
(* issued by the stored owner: a transfer that replaced the owner was sent *)
(* by the party that was the stored owner at that moment.                  *)
(***************************************************************************)
C3_OnlyOwnerTransfers ==
    (last.op = "transfer_ownership" /\ protocol_state.owner # last.acct)
        => last.caller = last.acct

(***************************************************************************)
(* C4.  Conservation: a successful deposit or redeem leaves the sum of the *)
(* vault's and the caller's underlying balances unchanged, and leaves the  *)
(* total underlying over the vault and all holders unchanged.              *)
(***************************************************************************)
C4_Conservation ==
    (LastDeposit \/ LastRedeem) =>
        /\ VaultBalance + bal[UnderlyingMint][last.caller]
              = last.before.vault_balance + last.before.user_balance
        /\ TotalUnderlying = last.before.underlying_total

(***************************************************************************)
(* C5.  No value extraction: a party P such that nobody else ever donated  *)
(* into custody has received from redeems at most what it deposited plus   *)
(* donated.                                                                *)
(***************************************************************************)
C5_NoValueExtraction ==
    \A p \in Parties : donors \subseteq {p} => netPaid[p] >= 0

(***************************************************************************)
(* C6.  Monotonic share value on deposit: after a successful deposit into  *)
(* a vault whose share supply was positive, floor(balance * 10^9 / supply) *)
(* is at least what it was before the deposit.                             *)
(***************************************************************************)
C6_DepositKeepsShareValue ==
    (LastDeposit /\ last.before.share_supply > 0) =>
        ValueGeq(ValuePerShare(VaultBalance, ShareSupply),
                 ValuePerShare(last.before.vault_balance,
                               last.before.share_supply))

\* a deposit into a vault with shares outstanding and a balance raised by a
\* donation above the supply has succeeded
C6_Witness ==
    /\ LastDeposit
    /\ last.before.share_supply > 0
    /\ last.before.vault_balance > last.before.share_supply
    /\ donors # {}

(***************************************************************************)
(* C7.  Monotonic share value on redeem: a successful redeem that leaves   *)
(* the vault's share supply positive does not lower the value per share,   *)
(* balance_after * supply_before >= balance_before * supply_after.         *)
(***************************************************************************)
C7_RedeemKeepsShareValue ==
    (LastRedeem /\ ShareSupply > 0) =>
        VaultBalance * last.before.share_supply
            >= last.before.vault_balance * ShareSupply

(***************************************************************************)
(* C8.  Invariant I1 as written: the share supply is 0 exactly when the    *)
(* vault has never had a successful deposit.                               *)
(***************************************************************************)
C8_SupplyZeroIffNeverDeposited ==
    vault.exists => (ShareSupply = 0 <=> ~hasDeposited)

\* C8 as amended: a vault that has never had a successful deposit has share
\* supply 0 (shares outstanding imply an earlier deposit); the converse does
\* not hold, the supply returns to 0 when all shares are redeemed.
C8_NeverDepositedHasNoShares ==
    (vault.exists /\ ~hasDeposited) => ShareSupply = 0

\* a vault that holds underlying and has acted on instructions but never
\* took a deposit
C8_Witness ==
    /\ vault.exists
    /\ ~hasDeposited
    /\ VaultBalance > 0
    /\ ShareSupply = 0

(***************************************************************************)
(* C9.  The drained-vault state never occurs: shares outstanding imply a   *)
(* positive custody balance, so no deposit fails with InvalidVaultState.   *)
(***************************************************************************)
C9_NeverDrained ==
    /\ (vault.exists /\ ShareSupply > 0) => VaultBalance > 0
    /\ \A p \in Parties, amount \in 0..MaxAmount :
          DepositError(p, ShareMintPda, amount) # "InvalidVaultState"

(***************************************************************************)
(* C10.  Bootstrap exactness: a successful deposit into a vault whose      *)
(* share supply is 0 mints exactly `amount` shares, whatever balance       *)
(* already sits in custody.                                                *)
(***************************************************************************)
C10_BootstrapExact ==
    (LastDeposit /\ last.before.share_supply = 0) =>
        /\ last.out = last.amount
        /\ bal[ShareMintPda][last.caller] = last.before.user_shares + last.amount
        /\ ShareSupply = last.amount

\* a first deposit into a vault that already held a donated balance
C10_Witness ==
    /\ LastDeposit
    /\ last.before.share_supply = 0
    /\ last.before.vault_balance > 0

(***************************************************************************)
(* C11.  Calculation accuracy: a successful deposit into a vault whose     *)
(* share supply was positive mints within 1 of                             *)
(* floor(amount * share_supply_before / vault_balance_before).             *)
(***************************************************************************)
C11_CalculationAccuracy ==
    (LastDeposit /\ last.before.share_supply > 0) =>
        LET expected == (last.amount * last.before.share_supply)
                            \div last.before.vault_balance
        IN  /\ last.out - expected <= 1
            /\ expected - last.out <= 1

(***************************************************************************)
(* C12.  No silent overflow: a successful non-bootstrap deposit mints      *)
(* exactly floor(amount * total_shares / total_assets) and a successful    *)
(* redeem returns exactly floor(shares * total_assets / total_shares),     *)
(* never that quotient reduced modulo the width of a u64.                  *)
(***************************************************************************)
C12_NoSilentOverflow ==
    /\ (LastDeposit /\ last.before.share_supply > 0) =>
          last.out = (last.amount * last.before.share_supply)
                         \div last.before.vault_balance
    /\ LastRedeem =>
          last.out = (last.amount * last.before.vault_balance)
                         \div (supply[last.acct] + last.amount)

(***************************************************************************)
(* C13.  Fairness bound: a successful deposit into a vault whose share     *)
(* supply was positive mints at most E + floor(E / 1000), with             *)
(* E = floor(amount * share_supply_before / vault_balance_before).         *)
(***************************************************************************)
C13_FairnessBound ==
    (LastDeposit /\ last.before.share_supply > 0) =>
        LET E == (last.amount * last.before.share_supply)
                     \div last.before.vault_balance
        IN  last.out <= E + (E \div 1000)

\* a deposit into a vault with shares outstanding has minted shares at a
\* price other than 1
C13_Witness ==
    /\ LastDeposit
    /\ last.before.share_supply > 0
    /\ last.before.vault_balance # last.before.share_supply
    /\ last.out > 0


(***************************************************************************)
(* C14.  No zero-value deposit: a successful deposit has amount > 0 and    *)
(* mints more than 0 shares; a deposit that passes the earlier checks and  *)
(* computes 0 shares fails with InsufficientShares and leaves every        *)
(* balance and supply as it was.                                           *)
(***************************************************************************)
C14_NoZeroValueDeposit ==
    /\ LastDeposit => (last.amount > 0 /\ last.out > 0)
    /\ \A p \in Parties, amount \in 1..MaxAmount :
          ( /\ vault.exists /\ vault_authority.exists
            /\ (ShareSupply # 0 => VaultBalance > 0)
            /\ amount * ShareSupply <= U128Max
            /\ SharesToMint(amount, ShareSupply, VaultBalance) = 0 )
          => /\ DepositError(p, ShareMintPda, amount) = "InsufficientShares"
             /\ DepositResult(p, ShareMintPda, amount) = <<supply, bal>>

\* a vault in which a deposit of 1 that its sender can pay computes 0 shares
C14_Witness ==
    /\ vault.exists
    /\ ShareSupply > 0
    /\ VaultBalance > ShareSupply
    /\ \E p \in Parties :
          /\ bal[UnderlyingMint][p] >= 1
          /\ DepositError(p, ShareMintPda, 1) = "InsufficientShares"

(***************************************************************************)
(* C15.  No zero-value redeem: a successful redeem has shares > 0 and      *)
(* returns more than 0 underlying; a redeem that passes the earlier checks *)
(* and computes 0 underlying fails with InsufficientUnderlying and burns   *)
(* nothing.                                                                *)
(***************************************************************************)
C15_NoZeroValueRedeem ==
    /\ LastRedeem => (last.amount > 0 /\ last.out > 0)
    /\ \A p \in Parties, m \in Mints, shares \in 1..MaxAmount :
          ( /\ vault.exists /\ vault_authority.exists
            /\ supply[m] > 0 /\ VaultBalance > 0
            /\ shares * VaultBalance <= U128Max
            /\ AsU64(UnderlyingToReturn(shares, VaultBalance, supply[m])) = 0 )
          => /\ RedeemError(p, m, shares) = "InsufficientUnderlying"
             /\ RedeemResult(p, m, shares) = <<supply, bal>>

\* a vault in which a holder's redeem of 1 share computes 0 underlying
C15_Witness ==
    /\ vault.exists
    /\ \E p \in Parties :
          /\ bal[ShareMintPda][p] >= 1
          /\ RedeemError(p, ShareMintPda, 1) = "InsufficientUnderlying"


(***************************************************************************)
(* C16.  Exact transfer on deposit: a successful deposit raises the        *)
(* custody balance by exactly `amount`, lowers the depositor's underlying  *)
(* balance by exactly `amount`, and raises the share supply and the        *)
(* depositor's share balance by the same shares_minted.                    *)
(***************************************************************************)
C16_DepositExactTransfer ==
    LastDeposit =>
        /\ VaultBalance = last.before.vault_balance + last.amount
        /\ bal[UnderlyingMint][last.caller]
              = last.before.user_balance - last.amount
        /\ ShareSupply = last.before.share_supply + last.out
        /\ bal[ShareMintPda][last.caller] = last.before.user_shares + last.out

\* a deposit by a party that already held shares, at a price other than 1
C16_Witness ==
    /\ LastDeposit
    /\ last.before.user_shares > 0
    /\ last.out # last.amount

(***************************************************************************)
(* C17.  Exact transfer on redeem: a successful redeem lowers the custody  *)
(* balance by exactly underlying_returned, raises the redeemer's           *)
(* underlying balance by exactly underlying_returned and lowers the        *)
(* redeemer's balance of the vault's shares by exactly `shares`.           *)
(***************************************************************************)
C17_RedeemExactTransfer ==
    LastRedeem =>
        /\ VaultBalance = last.before.vault_balance - last.out
        /\ bal[UnderlyingMint][last.caller]
              = last.before.user_balance + last.out
        /\ bal[ShareMintPda][last.caller]
              = last.before.user_shares - last.amount


C19_FullRedemption ==
    ( /\ LastRedeem
      /\ last.acct = ShareMintPda
      /\ last.amount = last.before.share_supply )
    => /\ last.before.vault_balance - last.out <= 1
       /\ last.out - last.before.vault_balance <= 1
       /\ ShareSupply = 0

\* all outstanding shares were redeemed from a vault whose custody balance
\* a donation had raised above the share supply by more than 1
C19_Witness ==
    /\ LastRedeem
    /\ last.acct = ShareMintPda
    /\ last.amount = last.before.share_supply
    /\ last.before.vault_balance > last.before.share_supply + 1

(***************************************************************************)
(* C20.  Dilution by yield: a successful non-bootstrap deposit mints       *)
(* exactly `amount` shares when the custody balance equals the share       *)
(* supply, and strictly fewer than `amount` when the custody balance is    *)
(* strictly greater than the share supply.                                 *)
(***************************************************************************)
C20_DilutionByYield ==
    (LastDeposit /\ last.before.share_supply > 0) =>
        /\ last.before.vault_balance = last.before.share_supply
              => last.out = last.amount
        /\ last.before.vault_balance > last.before.share_supply
              => last.out < last.amount

\* a deposit of more than 1 into a vault enriched by a donation has minted
\* fewer shares than the amount paid
C20_Witness ==
    /\ LastDeposit
    /\ last.before.share_supply > 0
    /\ last.before.vault_balance > last.before.share_supply
    /\ donors # {}
    /\ last.amount > 1
    /\ last.out < last.amount

(***************************************************************************)
(* C21.  Harness sanity bound: after a successful non-bootstrap deposit    *)
(* under test, the product amount * 2 fits a u64 and the shares minted are *)
(* at most that product.                                                   *)
(***************************************************************************)
C21_SanityBound ==
    (fuzz.stage = "assert" /\ last.before.share_supply # 0) =>
        /\ last.amount * 2 <= U64Max
        /\ last.out <= last.amount * 2

(***************************************************************************)
(* C22.  Harness allow-list: when the harness submits the deposit under    *)
(* test, the deposit succeeds or fails with InsufficientFunds,             *)
(* InvalidAmount, InsufficientShares or MathOverflow.                      *)
(***************************************************************************)
C22_AllowList ==
    fuzz.stage = "deposit" =>
        DepositError(FuzzUser, FuzzShareMint(vault), FuzzAmount(fuzz.input))
            \in AcceptableErrors \cup {"Ok"}

\* after a seed deposit and a yield mint, the deposit under test is about to
\* fail because it computes no shares
C22_Witness ==
    /\ fuzz.stage = "deposit"
    /\ fuzz.input.do_initial_deposit
    /\ VaultBalance > ShareSupply
    /\ DepositError(FuzzUser, FuzzShareMint(vault), FuzzAmount(fuzz.input))
          = "InsufficientShares"

(***************************************************************************)
(* C23.  Redeem preconditions, in precedence order: a redeem of 0 shares   *)
(* fails with InvalidAmount; otherwise, when the vault's share supply is 0 *)
(* it fails with NoShares; otherwise, when the custody balance is 0 it     *)
(* fails with EmptyVault; none of them changes a balance or a supply.      *)
(***************************************************************************)
C23_RedeemPreconditions ==
    (vault.exists /\ vault_authority.exists) =>
        \A p \in Parties, m \in Mints, shares \in 0..MaxAmount :
            LET err == RedeemError(p, m, shares) IN
            /\ shares = 0 => err = "InvalidAmount"
            /\ (shares > 0 /\ ShareSupply = 0) => err = "NoShares"
            /\ (shares > 0 /\ ShareSupply > 0 /\ VaultBalance = 0)
                  => err = "EmptyVault"
            /\ (shares = 0 \/ ShareSupply = 0 \/ VaultBalance = 0)
                  => RedeemResult(p, m, shares) = <<supply, bal>>

(***************************************************************************)
(* C24.  Deposit preconditions: a deposit of amount 0 fails with           *)
(* InvalidAmount; a deposit of a positive amount whose share mint is not   *)
(* the vault's fails with InvalidShareMint; neither changes a balance or   *)
(* a supply.                                                               *)
(***************************************************************************)
C24_DepositPreconditions ==
    (vault.exists /\ vault_authority.exists) =>
        \A p \in Parties, m \in Mints, amount \in 0..MaxAmount :
            LET err == DepositError(p, m, amount) IN
            /\ amount = 0 => err = "InvalidAmount"
            /\ (amount > 0 /\ m # vault.share_mint) => err = "InvalidShareMint"
            /\ (amount = 0 \/ m # vault.share_mint)
                  => (Committed(err)
                         => DepositWrites(p, m, amount) = <<supply, bal>>)

\* a party holding underlying tokens is refused a deposit into a mint of its
\* own that has a supply, in a vault that has shares outstanding
C24_Witness ==
    /\ vault.exists
    /\ ShareSupply > 0
    /\ supply[ForeignMint] > 0
    /\ \E p \in Parties :
          /\ bal[UnderlyingMint][p] > 0
          /\ DepositError(p, ForeignMint, 1) = "InvalidShareMint"
          /\ DepositError(p, ShareMintPda, 1) = "Ok"

(***************************************************************************)
(* C25.  The vault is created once and is immutable: once the vault        *)
(* exists, initialize_vault fails and never succeeds again, and no         *)
(* instruction changes the Vault record (share_mint, underlying_mint,      *)
(* vault_token_account).                                                   *)
(***************************************************************************)
C25_VaultCreatedOnce ==
    /\ [](vault.exists => InitializeVaultError = "AccountAlreadyInUse")
    /\ [][vault.exists => /\ vault' = vault
                          /\ last'.op # "initialize_vault"]_vars

\* after the vault was created, a deposit and a transfer of ownership that
\* replaced the owner have succeeded
C25_Witness ==
    /\ vault.exists
    /\ ShareSupply > 0
    /\ last.op = "transfer_ownership"
    /\ last.acct # protocol_state.owner

(***************************************************************************)
(* C26.  Initialize is once-only: once ProtocolState exists, initialize    *)
(* fails and never succeeds again, VaultAuthority never changes, and       *)
(* ProtocolState changes only in a successful transfer_ownership.          *)
(***************************************************************************)
C26_InitializeOnce ==
    /\ [](protocol_state.exists => InitializeError = "AccountAlreadyInUse")
    /\ [][protocol_state.exists =>
             /\ last'.op # "initialize"
             /\ vault_authority' = vault_authority
             /\ protocol_state' # protocol_state
                   => last'.op = "transfer_ownership"]_vars

\* the owner set by initialize has been replaced by transfer_ownership
C26_Witness ==
    /\ protocol_state.exists
    /\ last.op = "transfer_ownership"
    /\ last.acct # protocol_state.owner
    /\ InitializeError # "Ok"

(***************************************************************************)
(* C27.  Frame: a deposit or a redeem changes neither ProtocolState, the   *)
(* Vault record nor VaultAuthority; a transfer_ownership changes no        *)
(* balance and no supply.  (A failed instruction changes nothing at all.)  *)
(***************************************************************************)
C27_Frame ==
    [][ /\ last'.op \in {"deposit", "redeem"}
              => UNCHANGED <<protocol_state, vault, vault_authority>>
        /\ last'.op = "transfer_ownership" => UNCHANGED <<supply, bal>> ]_vars

\* ownership was transferred while the vault held deposits, some of them
\* already redeemed
C27_Witness ==
    /\ last.op = "transfer_ownership"
    /\ VaultBalance > 0
    /\ ShareSupply > 0
    /\ \E p \in Parties : netPaid[p] < 0

(***************************************************************************)
(* C29.  Reads precede writes within a call: the shares a successful       *)
(* deposit mints are computed from the share supply and the custody        *)
(* balance as they were before its transfer (earlier donations included,   *)
(* the deposited amount excluded); the payout of a successful redeem is    *)
(* computed from the supply and the custody balance as they were before    *)
(* its burn.                                                               *)
(***************************************************************************)
C29_ReadsPrecedeWrites ==
    /\ LastDeposit =>
          last.out = IF last.before.share_supply = 0 THEN last.amount
                     ELSE AsU64((last.amount * last.before.share_supply)
                                    \div last.before.vault_balance)
    /\ LastRedeem =>
          last.out = AsU64((last.amount * last.before.vault_balance)
                               \div (supply[last.acct] + last.amount))

\* a deposit into a vault that had received a donation, for which the
\* custody balance before and after the transfer give different quotients
C29_Witness ==
    /\ LastDeposit
    /\ donors # {}
    /\ last.before.share_supply > 0
    /\ last.before.vault_balance > last.before.share_supply
    /\ last.out # (last.amount * last.before.share_supply)
                      \div (last.before.vault_balance + last.amount)

(***************************************************************************)
(* C30.  No negative ledger entries: no balance and no supply is below 0;  *)
(* for every redeem that passes its checks and whose burn succeeds, the    *)
(* payout is at most the custody balance and the shares burned are at most *)
(* the supply of the mint burned; and after a successful redeem the        *)
(* differences the handler logs, custody balance minus payout and supply   *)
(* minus shares, both over the values read before the call, are not below  *)
(* 0.                                                                      *)
(***************************************************************************)
C30_NoNegativeLedger ==
    /\ \A m \in Mints :
          /\ supply[m] >= 0
          /\ \A h \in Holders : bal[m][h] >= 0
    /\ \A p \in Parties, m \in Mints, shares \in 1..MaxAmount :
          ( /\ BurnError(bal, m, p, shares) = "Ok"
            /\ RedeemChecks(p, m, shares) = "Ok" )
          => /\ AsU64(UnderlyingToReturn(shares, VaultBalance, supply[m]))
                   <= VaultBalance
             /\ shares <= supply[m]
    /\ LastRedeem =>
          LET supply_before == supply[last.acct] + last.amount IN
          /\ last.out <= last.before.vault_balance
          /\ last.amount <= supply_before
          /\ last.before.vault_balance - last.out = VaultBalance
          /\ supply_before - last.amount = supply[last.acct]

\* a redeem has emptied the custody account, and another redeem would pass
\* its checks but for the empty custody
C30_Witness ==
    /\ LastRedeem
    /\ last.out = last.before.vault_balance
    /\ VaultBalance = 0
    /\ \E p \in Parties, m \in Mints : bal[m][p] > 0 /\ supply[m] > bal[m][p]

(***************************************************************************)
(* C31.  Setup ordering: initialize_vault fails while VaultAuthority does  *)
(* not exist, so a vault exists only after initialize has succeeded;       *)
(* every deposit and redeem fails while the vault does not exist, so no    *)
(* deposit or redeem has succeeded and no share exists without the vault;  *)
(* a vault that has just been created has share supply 0 and custody       *)
(* balance 0.                                                              *)
(***************************************************************************)
C31_SetupOrdering ==
    /\ ~vault_authority.exists => InitializeVaultError # "Ok"
    /\ vault.exists => (vault_authority.exists /\ protocol_state.exists)
    /\ ~vault.exists =>
          /\ \A p \in Parties, m \in Mints, n \in 0..MaxAmount :
                /\ DepositError(p, m, n) # "Ok"
                /\ RedeemError(p, m, n) # "Ok"
          /\ ~LastDeposit /\ ~LastRedeem /\ ~hasDeposited
          /\ ShareSupply = 0 /\ VaultBalance = 0
    /\ last.op = "initialize_vault" => (ShareSupply = 0 /\ VaultBalance = 0)

\* the vault has just been created, after the protocol was initialized and
\* while a party already holds units of a mint of its own
C31_Witness ==
    /\ last.op = "initialize_vault"
    /\ vault.exists
    /\ vault_authority.exists
    /\ supply[ForeignMint] > 0

(***************************************************************************)
(* C32.  Deposit check precedence: a deposit of a positive amount with the *)
(* vault's share mint whose computed shares_to_mint is 0 fails with        *)
(* InsufficientShares, also when the depositor holds less than the amount; *)
(* a deposit fails with InsufficientFunds only when it passes every check  *)
(* of the handler and the depositor holds less than the amount.            *)
(***************************************************************************)
C32_DepositCheckPrecedence ==
    vault.exists =>
        \A p \in Parties, amount \in 1..MaxAmount :
            LET err == DepositError(p, ShareMintPda, amount) IN
            /\ ( /\ ShareSupply > 0
                 /\ VaultBalance > 0
                 /\ AsU64((amount * ShareSupply) \div VaultBalance) = 0 )
               => err = "InsufficientShares"
            /\ err = "InsufficientFunds"
               => /\ bal[UnderlyingMint][p] < amount
                  /\ DepositChecks(p, ShareMintPda, amount) = "Ok"

\* a depositor holding less than the amount asks for a deposit that computes
\* no shares, while another deposit fails for lack of funds alone
C32_Witness ==
    /\ vault.exists
    /\ \E p \in Parties, amount \in 1..MaxAmount :
          /\ bal[UnderlyingMint][p] < amount
          /\ ShareSupply > 0
          /\ VaultBalance > amount * ShareSupply
          /\ DepositError(p, ShareMintPda, amount) = "InsufficientShares"
    /\ \E p \in Parties, amount \in 1..MaxAmount :
          DepositError(p, ShareMintPda, amount) = "InsufficientFunds"

(***************************************************************************)
(* C33.  Solvency ratio: the custody balance of the vault is at least the  *)
(* supply of its share mint, and a successful deposit mints at most        *)
(* `amount` shares.                                                        *)
(***************************************************************************)
C33_SolvencyRatio ==
    vault.exists =>
        /\ VaultBalance >= ShareSupply
        /\ LastDeposit => last.out <= last.amount

(***************************************************************************)
(* C34.  Holders are never locked in: a party holding b > 0 units of the   *)
(* vault's share mint can redeem every s with 1 <= s <= b successfully.    *)
(***************************************************************************)
C34_HoldersNeverLockedIn ==
    \A p \in Parties, shares \in 1..MaxAmount :
        shares <= bal[ShareMintPda][p]
            => RedeemError(p, ShareMintPda, shares) = "Ok"

(***************************************************************************)
(* C35.  Round trip gives no profit: after a successful deposit of         *)
(* `amount`, a redeem by the depositor of exactly the shares just minted,  *)
(* when it succeeds, pays out at most `amount`.                            *)
(***************************************************************************)
C35_RoundTripNoProfit ==
    ( /\ LastDeposit
      /\ RedeemError(last.caller, ShareMintPda, last.out) = "Ok" )
    => AsU64((last.out * VaultBalance) \div ShareSupply) <= last.amount

(***************************************************************************)
(* C36.  MathOverflow is unreachable: for every amount of 64 bits the      *)
(* products amount * supply and shares * custody balance fit 128 bits, the *)
(* divisor is positive whenever the division is reached, and neither       *)
(* deposit nor redeem returns MathOverflow.                                *)
(***************************************************************************)
C36_MathOverflowUnreachable ==
    vault.exists =>
        \A m \in Mints, n \in 0..U64Max :
            /\ n * supply[m] <= (U64Max + 1) * (U64Max + 1) - 1
            /\ n * VaultBalance <= (U64Max + 1) * (U64Max + 1) - 1
            /\ DepositError(FuzzUser, m, n) # "MathOverflow"
            /\ RedeemError(FuzzUser, m, n) # "MathOverflow"
            /\ ( /\ DepositChecks(FuzzUser, m, n) \in {"InsufficientShares", "Ok"}
                 /\ supply[m] # 0 ) => VaultBalance > 0
            /\ RedeemChecks(FuzzUser, m, n) \in {"InsufficientUnderlying", "Ok"}
                  => supply[m] > 0

\* the deposit under test is about to succeed with an amount whose product
\* with the share supply does not fit 64 bits
C36_Witness ==
    /\ fuzz.stage = "deposit"
    /\ FuzzAmount(fuzz.input) * ShareSupply > U64Max
    /\ DepositError(FuzzUser, FuzzShareMint(vault), FuzzAmount(fuzz.input)) = "Ok"

====
